---------------------------- MODULE Spec2Model ----------------------------
(***************************************************************************)
(* Model of sparlo-benchmark/benchmark.py: the results.csv ledger, the     *)
(* generate and evaluate commands, the judge merge and the Sparlo          *)
(* submit-then-poll loop.                                                   *)
(*                                                                         *)
(* The CSV file is a sequence of lines, each line a sequence of strings in *)
(* column order (what csv.DictWriter writes and csv.DictReader reads).     *)
(* Python values held in a row dict are tagged cells: an int cell, a str   *)
(* cell or None; csv.DictWriter writes str(value) of each cell.            *)
(***************************************************************************)
EXTENDS Integers, Sequences, FiniteSets, TLC

\* ------------------------------------------------------------------ bounds
\* Number of generate invocations explored.
MaxGenerates == 2

\* ------------------------------------------------------- program constants
\* while time.time() - start < 2100
PollBudget == 2100
\* time.sleep(30)
PollInterval == 30

\* CSV_COLUMNS, in file order.
CSV_COLUMNS ==
  << "problem_id", "created_at", "problem_text", "segment", "problem_summary",
     "prior_art", "domain_spec", "contradiction", "sweetspot_pred", "expected_grade",
     "sparlo_output", "claude_output", "sparlo_status", "claude_status",
     "sparlo_time_sec", "claude_time_sec",
     "sparlo_understanding", "sparlo_novelty", "sparlo_relevance",
     "sparlo_credibility", "sparlo_actionability", "sparlo_citations", "sparlo_total",
     "claude_understanding", "claude_novelty", "claude_relevance",
     "claude_credibility", "claude_actionability", "claude_citations", "claude_total",
     "winner", "score_margin", "sparlo_strengths", "claude_strengths",
     "key_insight", "cross_domain_sparlo", "cross_domain_claude",
     "cross_domain_list_sparlo", "cross_domain_list_claude",
     "would_pay", "would_pay_rationale", "verdict_summary", "scoring_rationale",
     "notes", "evaluated" >>

\* The six scoring dimensions, in the order evaluate stores them.
Dimensions ==
  << "understanding", "novelty", "relevance", "credibility", "actionability", "citations" >>

Range(s) == { s[j] : j \in 1..Len(s) }

\* ------------------------------------------------------------ Python cells
PyInt(n) == [t |-> "int", v |-> n]
PyStr(s) == [t |-> "str", v |-> s]
PyNone == [t |-> "none", v |-> ""]

\* str(value) as csv.DictWriter writes a cell (None is written as the empty string).
CsvStr(c) == IF c.t = "int" THEN ToString(c.v) ELSE c.v

\* dict.get(key): the cell, or None when the key is absent.
Get(d, k) == IF k \in DOMAIN d THEN d[k] ELSE PyNone

\* ----------------------------------------------------------------- CSV I/O
\* csv.DictWriter(f, fieldnames=CSV_COLUMNS).writerow(d): one line, a column the
\* dict lacks is written as '' (restval).
WriteRowLine(d) ==
  [ j \in 1..Len(CSV_COLUMNS) |->
      IF CSV_COLUMNS[j] \in DOMAIN d THEN CsvStr(d[CSV_COLUMNS[j]]) ELSE "" ]

\* One csv.DictReader row: the line zipped with the field names of the file's
\* first line (a repeated field name keeps its last column).
FieldColumn(fieldnames) ==
  [ k \in Range(fieldnames) |->
      CHOOSE j \in 1..Len(fieldnames) :
        /\ fieldnames[j] = k
        /\ \A m \in (j + 1)..Len(fieldnames) : fieldnames[m] # k ]

ReadRowDict(column, line) == [ k \in DOMAIN column |-> PyStr(line[column[k]]) ]

\* list(csv.DictReader(f)): the first line is the header, whatever it holds.
DictRead(lines) ==
  IF lines = << >> THEN << >>
  ELSE LET column == FieldColumn(lines[1])
       IN [ i \in 1..(Len(lines) - 1) |-> ReadRowDict(column, lines[i + 1]) ]

\* ------------------------------------------------------------- judge merge
\* sum(scores.values()): every value of the score object is added.
RECURSIVE SumOver(_, _)
SumOver(f, keys) ==
  IF keys = {} THEN 0
  ELSE LET k == CHOOSE x \in keys : TRUE IN f[k] + SumOver(f, keys \ {k})

SumValues(scores) == SumOver(scores, DOMAIN scores)

\* ', '.join(list)
RECURSIVE Join(_)
Join(list) ==
  IF list = << >> THEN ""
  ELSE IF Len(list) = 1 THEN list[1]
  ELSE list[1] \o ", " \o Join(Tail(list))

\* result.get(key, default) on the judge's object.
ResultGet(result, key, default) == IF key \in DOMAIN result THEN result[key] ELSE default

\* str(flag).lower()
LowerBool(b) == IF b THEN "true" ELSE "false"

\* winner.upper() for the tags of the tool's enum.
Upper(w) ==
  CASE w = "Sparlo" -> "SPARLO"
    [] w = "Claude" -> "CLAUDE"
    [] w = "Tie" -> "TIE"
    [] OTHER -> w

Abs(n) == IF n < 0 THEN -n ELSE n

\* One paragraph of the composed rationale (lines 492-508).
RationalePara(title, dim, result) ==
  title \o " (Sparlo: " \o ToString(result["sparlo_scores"][dim])
        \o ", Claude: " \o ToString(result["claude_scores"][dim]) \o ")\n"
        \o ResultGet(ResultGet(result, "scoring_rationale", << >>), dim, "N/A") \o "\n\n"

\* The f-string of lines 490-519, built from the result and the row so far.
FullRationale(row, result) ==
  "SCORING RATIONALE\n\n"
    \o RationalePara("Understanding", "understanding", result)
    \o RationalePara("Novelty", "novelty", result)
    \o RationalePara("Relevance", "relevance", result)
    \o RationalePara("Credibility", "credibility", result)
    \o RationalePara("Actionability", "actionability", result)
    \o RationalePara("Citations", "citations", result)
    \o "Cross-Domain Count\nSparlo (" \o ToString(result["cross_domain_sparlo"]) \o "): "
    \o Join(ResultGet(result, "cross_domain_list_sparlo", << >>))
    \o "\nClaude (" \o ToString(result["cross_domain_claude"]) \o "): "
    \o Join(ResultGet(result, "cross_domain_list_claude", << >>))
    \o "\n\nWould Pay $50+?\nSparlo: "
    \o (IF result["would_pay_for_sparlo"] THEN "YES" ELSE "NO") \o ". "
    \o ResultGet(result, "would_pay_rationale", "")
    \o "\n\nVerdict\n" \o Upper(result["winner"]) \o " wins by "
    \o ToString(Abs(row["score_margin"].v)) \o " points (Sparlo: "
    \o CsvStr(row["sparlo_total"]) \o ", Claude: " \o CsvStr(row["claude_total"]) \o ").\n"
    \o ResultGet(result, "verdict_summary", "")

\* The statements of the try block (lines 456-523), in source order.  kind:
\*   bind   scores = result[key]              (KeyError when key is absent)
\*   sub    row[col] = result[key][dim]       (KeyError when dim is absent)
\*   total  row[col] = sum(result[key].values())
\*   int    row[col] = result[key]            (an integer; KeyError when absent)
\*   str    row[col] = result[key]            (a string; KeyError when absent)
\*   margin row[col] = int(row['sparlo_total']) - int(row['claude_total'])
\*   join   row[col] = ', '.join(result.get(key, []))
\*   bool   row[col] = str(result[key]).lower()
\*   opt    row[col] = result.get(key, '')
\*   text   row[col] = full_rationale
\*   flag   row[col] = 'true'
SubStmts(who) ==
  [ j \in 1..Len(Dimensions) |->
      [kind |-> "sub", col |-> who \o "_" \o Dimensions[j],
       key |-> who \o "_scores", dim |-> Dimensions[j]] ]

Stmt(kind, col, key) == [kind |-> kind, col |-> col, key |-> key, dim |-> ""]

MergeStmts ==
  << Stmt("bind", "", "sparlo_scores"), Stmt("bind", "", "claude_scores") >>
  \o SubStmts("sparlo")
  \o << Stmt("total", "sparlo_total", "sparlo_scores") >>
  \o SubStmts("claude")
  \o << Stmt("total", "claude_total", "claude_scores"),
        Stmt("str", "winner", "winner"),
        Stmt("margin", "score_margin", ""),
        Stmt("str", "sparlo_strengths", "sparlo_strengths"),
        Stmt("str", "claude_strengths", "claude_strengths"),
        Stmt("str", "key_insight", "key_insight"),
        Stmt("int", "cross_domain_sparlo", "cross_domain_sparlo"),
        Stmt("int", "cross_domain_claude", "cross_domain_claude"),
        Stmt("join", "cross_domain_list_sparlo", "cross_domain_list_sparlo"),
        Stmt("join", "cross_domain_list_claude", "cross_domain_list_claude"),
        Stmt("bool", "would_pay", "would_pay_for_sparlo"),
        Stmt("opt", "would_pay_rationale", "would_pay_rationale"),
        Stmt("opt", "verdict_summary", "verdict_summary"),
        Stmt("text", "scoring_rationale", ""),
        Stmt("opt", "notes", "notes"),
        Stmt("flag", "evaluated", "") >>

\* Whether statement st raises (a KeyError on a subscript of an absent key).
StmtRaises(st, result) ==
  CASE st.kind \in {"bind", "int", "str", "bool"} -> st.key \notin DOMAIN result
    [] st.kind = "sub" -> st.dim \notin DOMAIN result[st.key]
    [] OTHER -> FALSE

\* The cell statement st assigns.
StmtValue(st, row, result) ==
  CASE st.kind = "sub" -> PyInt(result[st.key][st.dim])
    [] st.kind = "total" -> PyInt(SumValues(result[st.key]))
    [] st.kind = "int" -> PyInt(result[st.key])
    [] st.kind = "str" -> PyStr(result[st.key])
    [] st.kind = "margin" -> PyInt(row["sparlo_total"].v - row["claude_total"].v)
    [] st.kind = "join" -> PyStr(Join(ResultGet(result, st.key, << >>)))
    [] st.kind = "bool" -> PyStr(LowerBool(result[st.key]))
    [] st.kind = "opt" -> PyStr(ResultGet(result, st.key, ""))
    [] st.kind = "text" -> PyStr(FullRationale(row, result))
    [] st.kind = "flag" -> PyStr("true")

\* Mutant: an assignment to the row that also blanks the stored Sparlo output.
SetItemClobbers(row, col, cell) ==
  [ k \in DOMAIN row \cup {col} |->
      IF k = col THEN cell ELSE IF k = "sparlo_output" THEN PyStr("") ELSE row[k] ]

\* row[col] = value on a dict (the key is added when the dict lacks it).
SetItem(row, col, cell) ==
  IF col \in DOMAIN row THEN [row EXCEPT ![col] = cell]
  ELSE [ k \in DOMAIN row \cup {col} |-> IF k = col THEN cell ELSE row[k] ]

StmtExec(st, row, result) ==
  IF st.kind = "bind" THEN row ELSE SetItem(row, st.col, StmtValue(st, row, result))

\* The try block run from statement n on: the row as the statements leave it, and
\* whether one of them raised (the except clause then continues with the next row;
\* the assignments already made to the row stay).
RECURSIVE MergeFrom(_, _, _)
MergeFrom(n, row, result) ==
  IF n > Len(MergeStmts) THEN [row |-> row, raised |-> FALSE]
  ELSE IF StmtRaises(MergeStmts[n], result) THEN [row |-> row, raised |-> TRUE]
  ELSE MergeFrom(n + 1, StmtExec(MergeStmts[n], row, result), result)

\* Mutant: a merge that never sets row['evaluated'].
MergeResultNoFlag(row, result) ==
  LET m == MergeFrom(1, row, result)
  IN [m EXCEPT !.row = SetItem(m.row, "evaluated", row["evaluated"])]

MergeResult(row, result) == MergeFrom(1, row, result)

\* ------------------------------------------------------------------ inputs
\* The sub-scores of the spec's example: 6,7,8,7,9,8 (45) against 5,5,6,5,5,6 (32).
ScoresA ==
  [understanding |-> 6, novelty |-> 7, relevance |-> 8,
   credibility |-> 7, actionability |-> 9, citations |-> 8]

ScoresB ==
  [understanding |-> 5, novelty |-> 5, relevance |-> 6,
   credibility |-> 5, actionability |-> 5, citations |-> 6]

\* "winner": {"type": "string", "enum": ["Sparlo", "Claude", "Tie"]}
Winners == {"Sparlo", "Claude", "Tie"}

\* An object that carries every property of EVALUATION_TOOL's input_schema.
FullResult(w) ==
  [sparlo_scores |-> ScoresA,
   claude_scores |-> ScoresB,
   scoring_rationale |-> [d \in Range(Dimensions) |-> "analysis"],
   winner |-> w,
   sparlo_strengths |-> "depth",
   claude_strengths |-> "brevity",
   key_insight |-> "insight",
   cross_domain_sparlo |-> 2,
   cross_domain_claude |-> 1,
   cross_domain_list_sparlo |-> << "hot plate stirrers", "blood warmers" >>,
   cross_domain_list_claude |-> << "aerospace" >>,
   would_pay_for_sparlo |-> TRUE,
   would_pay_rationale |-> "citations",
   verdict_summary |-> "verdict",
   notes |-> "note"]

Without(f, k) == [ x \in DOMAIN f \ {k} |-> f[x] ]

\* What block.input can be: the API returns the tool call's arguments as the model
\* produced them, and evaluate_outputs returns them unchecked (lines 318-321).
\*   - the full object, with each winner tag;
\*   - an object lacking the required "winner";
\*   - an object lacking the required "key_insight";
\*   - an object whose cross-domain list for Sparlo is empty (allowed by the schema);
\*   - an object whose sparlo_scores carries a seventh property (the schema does not
\*     set additionalProperties to false).
JudgeResults ==
  { FullResult(w) : w \in Winners }
    \cup { Without(FullResult("Sparlo"), "winner"),
           Without(FullResult("Sparlo"), "key_insight"),
           [FullResult("Sparlo") EXCEPT !["cross_domain_list_sparlo"] = << >>],
           [FullResult("Sparlo") EXCEPT
              !["sparlo_scores"] = [k \in DOMAIN ScoresA \cup {"total"} |->
                                      IF k = "total" THEN 45 ELSE ScoresA[k]]] }

\* The options of the generate command (click validates them before generate runs).
GenerateInputs ==
  { [problem |-> "problem", segment |-> "PDC", summary |-> "summary",
     prior_art |-> "Low", domain |-> "Cross", contradiction |-> "Sharp",
     sweetspot |-> 3, expected |-> "A"] }

\* What run_sparlo returns, as (output, status, duration): line 152 (no credential,
\* duration 0), lines 166 and 220 (submission rejected, status error), line 218
\* (complete), line 222 (timeout).  Durations are clock readings in time units.
SparloReturns ==
  { << "", "error", 0 >>, << "", "error", 60 >>,
    << "sparlo report", "complete", 1500 >>, << "", "timeout", PollBudget >> }

\* What the body of the try of run_claude meets: messages.create returns a message
\* whose first block is text, or something in the try raises (a connection error, a
\* non-success response, which the client raises as APIStatusError, an empty content).
ClaudeResponses ==
  { [kind |-> "text", text |-> "claude report"],
    [kind |-> "raises", text |-> "APIConnectionError"] }

\* run_claude, lines 230-240: line 238 returns the generated text with status
\* complete, line 240 returns str(e) with status error.
run_claude(resp) ==
  IF resp.kind = "text" THEN << resp.text, "complete", 30 >>
  ELSE << resp.text, "error", 1 >>

\* What run_claude returns.
ClaudeReturns == { run_claude(resp) : resp \in ClaudeResponses }

\* ------------------------------------------------------------------- state
VARIABLES
  csv_exists,   \* CSV_FILE.exists()
  csv_lines,    \* the lines of results.csv
  reports,      \* the files under reports/: for each <<problem_id, backend>> that
                \* has a file, the number of times the file was opened for writing
  pc,           \* where the running command is ("idle": no command is running)
  nextId,       \* number of generate invocations so far (names the uuid4 values)
  gen,          \* the locals of generate
  ev,           \* the locals of evaluate
  hist,         \* the last command that ended: its kind, whether it failed (generate
                \* raised, a judge call of evaluate failed), its number of judge calls;
                \* and the problem ids of the rows appended so far, in order
  poll          \* the locals of run_sparlo and the clock, in the poll-loop model

vars == << csv_exists, csv_lines, reports, pc, nextId, gen, ev, hist, poll >>

NoGen ==
  [problem_id |-> "", input |-> << >>, sparlo |-> << >>, claude |-> << >>,
   raised |-> FALSE, lines0 |-> << >>,
   claude_calls |-> 0, claude_resp |-> << >>]

NoEv ==
  [rows |-> << >>, to_evaluate |-> << >>, i |-> 1,
   lines0 |-> << >>, judged |-> << >>, failed |-> {}, writes |-> 0]

NoHist == [kind |-> "none", failed |-> FALSE, calls |-> 0, appended |-> << >>]

NoPoll == [pc |-> "off"]

Init ==
  /\ csv_exists = FALSE
  /\ csv_lines = << >>
  /\ reports = << >>
  /\ pc = "idle"
  /\ nextId = 0
  /\ gen = NoGen
  /\ ev = NoEv
  /\ hist = NoHist
  /\ poll = NoPoll

\* ------------------------------------------------------------------ ledger
\* open(report_file, 'w') and json.dump: the file is created, or written over.
WriteReport(files, name) ==
  IF name \in DOMAIN files THEN [files EXCEPT ![name] = files[name] + 1]
  ELSE [ x \in DOMAIN files \cup {name} |-> IF x = name THEN 1 ELSE files[x] ]

\* Mutant: init_csv without the test of CSV_FILE.exists().
InitCsvLinesOverwrite == << CSV_COLUMNS >>

\* init_csv: the header is written only when the file does not exist.
InitCsvLines == IF csv_exists THEN csv_lines ELSE << CSV_COLUMNS >>

\* The cli group callback, run before every command.
Cli ==
  /\ csv_exists' = TRUE
  /\ csv_lines' = InitCsvLines

\* sum(1 for r in rows if r[field] == value).
Count(rows, field, value) ==
  Cardinality({ i \in 1..Len(rows) : Get(rows[i], field) = PyStr(value) })

\* The counts status prints (lines 558-569): the wins are counted over all rows,
\* the ties are what is left of the evaluated rows.
StatusCounts(rows) ==
  LET total == Len(rows)
      complete == Cardinality({ i \in 1..Len(rows) :
                                  /\ Get(rows[i], "sparlo_status") = PyStr("complete")
                                  /\ Get(rows[i], "claude_status") = PyStr("complete") })
      evaluated == Count(rows, "evaluated", "true")
      sparlo_wins == Count(rows, "winner", "Sparlo")
      claude_wins == Count(rows, "winner", "Claude")
  IN [total |-> total, complete |-> complete, evaluated |-> evaluated,
      pending |-> complete - evaluated,
      sparlo_wins |-> sparlo_wins, claude_wins |-> claude_wins,
      ties |-> evaluated - sparlo_wins - claude_wins]

\* The counts evaluate prints when it ends (lines 538-544): each is counted over
\* the rows marked evaluated.
SummaryCounts(rows) ==
  LET evaluated == SelectSeq(rows, LAMBDA r : Get(r, "evaluated") = PyStr("true"))
  IN [sparlo_wins |-> Count(evaluated, "winner", "Sparlo"),
      claude_wins |-> Count(evaluated, "winner", "Claude"),
      ties |-> Count(evaluated, "winner", "Tie")]

\* The status command (lines 548-569): after the cli callback it reads the ledger
\* and prints counts; it writes nothing.
Status ==
  /\ pc = "idle"
  /\ Cli
  /\ UNCHANGED << reports, pc, nextId, gen, ev, hist, poll >>

\* --------------------------------------------------------------- generate
\* generate up to the call of run_sparlo: the uuid4 and the metadata.
GenerateStart ==
  /\ pc = "idle"
  /\ nextId < MaxGenerates
  /\ \E inp \in GenerateInputs :
       gen' = [NoGen EXCEPT !.problem_id = "id" \o ToString(nextId + 1),
                            !.input = inp,
                            !.lines0 = InitCsvLines]
  /\ Cli
  /\ nextId' = nextId + 1
  /\ pc' = "gen_sparlo"
  /\ UNCHANGED << reports, ev, hist, poll >>

\* run_sparlo(problem, problem_id) returns; on complete it has written
\* reports/<problem_id>_sparlo.json (lines 202-216).
RunSparloReturns ==
  /\ pc = "gen_sparlo"
  /\ \E r \in SparloReturns :
       /\ gen' = [gen EXCEPT !.sparlo = r]
       /\ reports' = IF r[2] = "complete"
                     THEN WriteReport(reports, << gen.problem_id, "sparlo" >>)
                     ELSE reports
  /\ pc' = "gen_claude"
  /\ UNCHANGED << csv_exists, csv_lines, nextId, ev, hist, poll >>

\* run_sparlo raises: requests.post or requests.get raises (connection error, read
\* timeout), or resp.json()["reportId"] does.  Nothing in run_sparlo or generate
\* catches it, so generate ends here.
RunSparloRaises ==
  /\ pc = "gen_sparlo"
  /\ gen' = [gen EXCEPT !.raised = TRUE]
  /\ pc' = "gen_exit"
  /\ UNCHANGED << csv_exists, csv_lines, reports, nextId, ev, hist, poll >>

\* Mutant: run_claude without the except clause; an exception ends generate.
RunClaudePropagates ==
  /\ pc = "gen_claude"
  /\ \E resp \in ClaudeResponses :
       /\ gen' = [gen EXCEPT !.claude = IF resp.kind = "text" THEN run_claude(resp) ELSE << >>,
                             !.raised = resp.kind # "text",
                             !.claude_calls = gen.claude_calls + 1,
                             !.claude_resp = resp]
       /\ pc' = IF resp.kind = "text" THEN "gen_save" ELSE "gen_exit"
  /\ UNCHANGED << csv_exists, csv_lines, reports, nextId, ev, hist, poll >>

\* run_claude(problem), line 366: one messages.create, inside try/except Exception.
\* claude_calls counts the requests made, claude_resp is what the request met.
RunClaude ==
  /\ pc = "gen_claude"
  /\ \E resp \in ClaudeResponses :
       gen' = [gen EXCEPT !.claude = run_claude(resp),
                          !.claude_calls = gen.claude_calls + 1,
                          !.claude_resp = resp]
  /\ pc' = "gen_save"
  /\ UNCHANGED << csv_exists, csv_lines, reports, nextId, ev, hist, poll >>

\* Mutant: the Claude output is saved whatever its status.
SaveClaudeAlways ==
  /\ pc = "gen_save"
  /\ reports' = WriteReport(reports, << gen.problem_id, "claude" >>)
  /\ pc' = "gen_append"
  /\ UNCHANGED << csv_exists, csv_lines, nextId, gen, ev, hist, poll >>

\* Lines 369-383: the Claude output is saved only when its status is complete.
SaveClaude ==
  /\ pc = "gen_save"
  /\ reports' = IF gen.claude[2] = "complete"
                THEN WriteReport(reports, << gen.problem_id, "claude" >>)
                ELSE reports
  /\ pc' = "gen_append"
  /\ UNCHANGED << csv_exists, csv_lines, nextId, gen, ev, hist, poll >>

\* The row dict of lines 386-404.
GenerateRow(g) ==
  [problem_id |-> PyStr(g.problem_id),
   created_at |-> PyStr("t-" \o g.problem_id),
   problem_text |-> PyStr(g.input.problem),
   segment |-> PyStr(g.input.segment),
   problem_summary |-> PyStr(g.input.summary),
   prior_art |-> PyStr(g.input.prior_art),
   domain_spec |-> PyStr(g.input.domain),
   contradiction |-> PyStr(g.input.contradiction),
   sweetspot_pred |-> PyInt(g.input.sweetspot),
   expected_grade |-> PyStr(g.input.expected),
   sparlo_output |-> PyStr(g.sparlo[1]),
   claude_output |-> PyStr(g.claude[1]),
   sparlo_status |-> PyStr(g.sparlo[2]),
   claude_status |-> PyStr(g.claude[2]),
   sparlo_time_sec |-> PyInt(g.sparlo[3]),
   claude_time_sec |-> PyInt(g.claude[3]),
   evaluated |-> PyStr("false")]

\* Lines 406-408: open(CSV_FILE, 'a') and writerow(row).
AppendRow ==
  /\ pc = "gen_append"
  /\ csv_lines' = Append(csv_lines, WriteRowLine(GenerateRow(gen)))
  /\ hist' = [hist EXCEPT !.appended = Append(hist.appended, gen.problem_id)]
  /\ pc' = "gen_exit"
  /\ UNCHANGED << csv_exists, reports, nextId, gen, ev, poll >>

\* generate returns, or ends with the exception run_sparlo raised.
GenerateExit ==
  /\ pc = "gen_exit"
  /\ pc' = "idle"
  /\ gen' = NoGen
  /\ hist' = [hist EXCEPT !.kind = "generate", !.failed = gen.raised, !.calls = 0]
  /\ UNCHANGED << csv_exists, csv_lines, reports, nextId, ev, poll >>

\* Mutant: the selection without the test of the evaluated flag.
EligibleIgnoresFlag(r) ==
  /\ Get(r, "sparlo_status") = PyStr("complete")
  /\ Get(r, "claude_status") = PyStr("complete")

\* Mutant: the selection without the tests of the two statuses.
EligibleAnyStatus(r) == Get(r, "evaluated") = PyStr("false")

\* --------------------------------------------------------------- evaluate
\* Lines 424-426: the test of the to_evaluate comprehension.
Eligible(r) ==
  /\ Get(r, "evaluated") = PyStr("false")
  /\ Get(r, "sparlo_status") = PyStr("complete")
  /\ Get(r, "claude_status") = PyStr("complete")

\* The indices, in order, of the rows of a list that pass the test.
RECURSIVE SelectFrom(_, _)
SelectFrom(rows, n) ==
  IF n > Len(rows) THEN << >>
  ELSE (IF Eligible(rows[n]) THEN << n >> ELSE << >>) \o SelectFrom(rows, n + 1)

ToEvaluate(rows) == SelectFrom(rows, 1)

\* Lines 417-430: read all rows and select; with nothing to evaluate the command
\* returns at once and writes nothing.
EvaluateStart ==
  /\ pc = "idle"
  /\ Cli
  /\ LET rows == DictRead(InitCsvLines) IN
       /\ ev' = [NoEv EXCEPT !.rows = rows,
                             !.to_evaluate = ToEvaluate(rows),
                             !.lines0 = InitCsvLines]
       /\ pc' = IF ToEvaluate(rows) = << >> THEN "eval_exit" ELSE "eval_loop"
  /\ UNCHANGED << reports, nextId, gen, hist, poll >>

\* Mutant: the ledger is rewritten after every judged row.
JudgeReturnsWritesThrough ==
  /\ pc = "eval_loop"
  /\ \E result \in JudgeResults :
       LET n == ev.to_evaluate[ev.i]
           m == MergeFrom(1, ev.rows[n], result)
           rows == [ev.rows EXCEPT ![n] = m.row]
       IN /\ ev' = [ev EXCEPT !.rows = rows,
                              !.i = ev.i + 1,
                              !.judged = Append(ev.judged, n),
                              !.failed = IF m.raised THEN ev.failed \cup {n} ELSE ev.failed,
                              !.writes = ev.writes + 1]
          /\ csv_lines' = << CSV_COLUMNS >> \o [ i \in 1..Len(rows) |-> WriteRowLine(rows[i]) ]
  /\ pc' = IF ev.i = Len(ev.to_evaluate) THEN "eval_rewrite" ELSE "eval_loop"
  /\ UNCHANGED << csv_exists, reports, nextId, gen, hist, poll >>

\* One iteration of the for loop in which evaluate_outputs returns an object: the
\* try block merges it into the row (the dict is shared with the rows list).
JudgeReturns ==
  /\ pc = "eval_loop"
  /\ \E result \in JudgeResults :
       LET n == ev.to_evaluate[ev.i]
           m == MergeResult(ev.rows[n], result)
       IN ev' = [ev EXCEPT !.rows[n] = m.row,
                           !.i = ev.i + 1,
                           !.judged = Append(ev.judged, n),
                           !.failed = IF m.raised THEN ev.failed \cup {n} ELSE ev.failed]
  /\ pc' = IF ev.i = Len(ev.to_evaluate) THEN "eval_rewrite" ELSE "eval_loop"
  /\ UNCHANGED << csv_exists, csv_lines, reports, nextId, gen, hist, poll >>

\* Mutant: the exception of evaluate_outputs is not caught and ends evaluate.
JudgeRaisesAborts ==
  /\ pc = "eval_loop"
  /\ LET n == ev.to_evaluate[ev.i] IN
       ev' = [ev EXCEPT !.i = ev.i + 1,
                        !.judged = Append(ev.judged, n),
                        !.failed = ev.failed \cup {n}]
  /\ pc' = "eval_exit"
  /\ UNCHANGED << csv_exists, csv_lines, reports, nextId, gen, hist, poll >>

\* One iteration in which evaluate_outputs raises (the API call fails, or the
\* response holds no tool_use block: line 323); except Exception continues.
JudgeRaises ==
  /\ pc = "eval_loop"
  /\ LET n == ev.to_evaluate[ev.i] IN
       ev' = [ev EXCEPT !.i = ev.i + 1,
                        !.judged = Append(ev.judged, n),
                        !.failed = ev.failed \cup {n}]
  /\ pc' = IF ev.i = Len(ev.to_evaluate) THEN "eval_rewrite" ELSE "eval_loop"
  /\ UNCHANGED << csv_exists, csv_lines, reports, nextId, gen, hist, poll >>

\* Mutant: a rewrite that keeps only the rows marked evaluated.
FileOfJudgedOnly(rows) ==
  << CSV_COLUMNS >>
    \o SelectSeq([ i \in 1..Len(rows) |-> WriteRowLine(rows[i]) ],
                 LAMBDA line : line[Len(CSV_COLUMNS)] = "true")

\* What writeheader() and writerows(rows) put in the file.
FileOf(rows) == << CSV_COLUMNS >> \o [ i \in 1..Len(rows) |-> WriteRowLine(rows[i]) ]

\* Line 532: open(CSV_FILE, 'w') truncates the file.
RewriteOpen ==
  /\ pc = "eval_rewrite"
  /\ csv_lines' = << >>
  /\ ev' = [ev EXCEPT !.writes = ev.writes + 1]
  /\ pc' = "eval_write"
  /\ UNCHANGED << csv_exists, reports, nextId, gen, hist, poll >>

\* Lines 533-535: the header and every row are written and the file is closed.
RewriteWrite ==
  /\ pc = "eval_write"
  /\ csv_lines' = FileOf(ev.rows)
  /\ pc' = "eval_exit"
  /\ UNCHANGED << csv_exists, reports, nextId, gen, ev, hist, poll >>

\* evaluate returns (after the summary, or at line 430).
EvaluateExit ==
  /\ pc = "eval_exit"
  /\ pc' = "idle"
  /\ ev' = NoEv
  /\ hist' = [hist EXCEPT !.kind = "evaluate", !.failed = ev.failed # {},
                          !.calls = Len(ev.judged)]
  /\ UNCHANGED << csv_exists, csv_lines, reports, nextId, gen, poll >>

Next ==
  \/ GenerateStart
  \/ RunSparloReturns
  \/ RunSparloRaises
  \/ RunClaude
  \/ SaveClaude
  \/ AppendRow
  \/ GenerateExit
  \/ EvaluateStart
  \/ JudgeReturns
  \/ JudgeRaises
  \/ RewriteOpen
  \/ RewriteWrite
  \/ EvaluateExit
  \/ Status

Spec == Init /\ [][Next]_vars

\* ------------------------------------------------- run_sparlo, step by step
\* The poll-loop model: one call of run_sparlo with the clock.  poll holds
\*   pc      entry | test | sleep | get | returned | raised
\*   now     time.time()
\*   start   the reading of line 148
\*   polls   status requests sent so far
\*   ended   a status request came back complete or error, or raised
\*   last    how the latest status request came back
\*   result  what run_sparlo returned: (output, status, duration)
\*   submit  how the submission went: none | no_credential | rejected | raised | accepted
\*   body    the reportData of the response that said complete
\* Extra time a request or a sleep may take beyond its nominal duration.
MaxDelay == 1

Delays == 0..MaxDelay

\* No step lets the clock pass this reading (the loop leaves well before it).
MaxClock == PollBudget + 10 * PollInterval

PollStart ==
  [pc |-> "entry", now |-> 0, start |-> 0, polls |-> 0, ended |-> FALSE,
   last |-> "none", result |-> << >>, submit |-> "none", body |-> << >>]

InitPoll ==
  /\ csv_exists = TRUE
  /\ csv_lines = << CSV_COLUMNS >>
  /\ reports = << >>
  /\ pc = "gen_sparlo"
  /\ nextId = 1
  /\ \E inp \in GenerateInputs :
       gen = [NoGen EXCEPT !.problem_id = "id1", !.input = inp,
                           !.lines0 = << CSV_COLUMNS >>]
  /\ ev = NoEv
  /\ hist = NoHist
  /\ poll = PollStart

Elapsed == poll.now - poll.start

\* Mutant: a loop that does not test the budget (while True).
LoopConditionAlways == TRUE

\* Mutant: the budget test lets the loop body run at elapsed = budget.
LoopConditionInclusive == Elapsed <= PollBudget

\* Line 172: the while condition.
LoopCondition == Elapsed < PollBudget

PollFrame == UNCHANGED << csv_exists, csv_lines, pc, nextId, gen, ev, hist >>

\* Lines 150-152: BENCHMARK_API_KEY is not set.
PollNoCredential ==
  /\ poll.pc = "entry"
  /\ poll' = [poll EXCEPT !.pc = "returned", !.submit = "no_credential",
                          !.result = << "", "error", 0 >>]
  /\ UNCHANGED reports
  /\ PollFrame

\* Lines 157-166: the create request comes back with a status other than 200.
PollSubmitRejected ==
  /\ poll.pc = "entry"
  /\ \E d \in Delays :
       poll' = [poll EXCEPT !.pc = "returned", !.now = poll.now + d,
                            !.submit = "rejected",
                            !.result = << "", "error", poll.now + d - poll.start >>]
  /\ UNCHANGED reports
  /\ PollFrame

\* Lines 157-168: requests.post raises, or the body holds no reportId.
PollSubmitRaises ==
  /\ poll.pc = "entry"
  /\ \E d \in Delays :
       poll' = [poll EXCEPT !.pc = "raised", !.now = poll.now + d, !.submit = "raised"]
  /\ UNCHANGED reports
  /\ PollFrame

\* Lines 157-169: the report is created.
PollSubmitAccepted ==
  /\ poll.pc = "entry"
  /\ \E d \in Delays :
       poll' = [poll EXCEPT !.pc = "test", !.now = poll.now + d, !.submit = "accepted"]
  /\ UNCHANGED reports
  /\ PollFrame

\* Line 172, condition true: the loop body is entered.
PollEnter ==
  /\ poll.pc = "test"
  /\ LoopCondition
  /\ poll' = [poll EXCEPT !.pc = "sleep"]
  /\ UNCHANGED reports
  /\ PollFrame

\* Line 172, condition false, and line 222.
PollTimeout ==
  /\ poll.pc = "test"
  /\ ~LoopCondition
  /\ poll' = [poll EXCEPT !.pc = "returned",
                          !.result = << "", "timeout", Elapsed >>]
  /\ UNCHANGED reports
  /\ PollFrame

\* Line 173: time.sleep(30) returns after at least 30 units.
PollSleep ==
  /\ poll.pc = "sleep"
  /\ \E d \in Delays :
       /\ poll.now + PollInterval + d <= MaxClock
       /\ poll' = [poll EXCEPT !.pc = "get", !.now = poll.now + PollInterval + d]
  /\ UNCHANGED reports
  /\ PollFrame

\* Mutant: a status other than 200 ends the run with status error.
PollGetNon200Fails ==
  /\ poll.pc = "get"
  /\ \E d \in Delays :
       /\ poll.now + d <= MaxClock
       /\ poll' = [poll EXCEPT !.pc = "returned", !.now = poll.now + d,
                               !.last = "non200", !.polls = poll.polls + 1,
                               !.result = << "", "error", poll.now + d - poll.start >>]
  /\ UNCHANGED reports
  /\ PollFrame

\* Lines 175-183: the status request comes back with a status other than 200.
PollGetNon200 ==
  /\ poll.pc = "get"
  /\ \E d \in Delays :
       /\ poll.now + d <= MaxClock
       /\ poll' = [poll EXCEPT !.pc = "test", !.now = poll.now + d,
                               !.last = "non200", !.polls = poll.polls + 1]
  /\ UNCHANGED reports
  /\ PollFrame

\* Lines 175-190 with a status other than complete and error: nothing returns.
PollGetInProgress ==
  /\ poll.pc = "get"
  /\ \E d \in Delays :
       /\ poll.now + d <= MaxClock
       /\ poll' = [poll EXCEPT !.pc = "test", !.now = poll.now + d,
                               !.last = "in_progress", !.polls = poll.polls + 1]
  /\ UNCHANGED reports
  /\ PollFrame

\* What data.get("reportData", {}) can be in a response that says complete: a dict
\* with a "report" entry, a dict without one (the default {} when the key is
\* missing), or a value that is not a dict.  repr is what str() gives for it.
ReportData ==
  { [dict |-> TRUE, has_report |-> TRUE, report |-> "sparlo report",
     repr |-> "{'report': 'sparlo report'}"],
    [dict |-> TRUE, has_report |-> FALSE, report |-> "", repr |-> "{}"],
    [dict |-> FALSE, has_report |-> FALSE, report |-> "", repr |-> "None"] }

\* Lines 195-199: str(report_data.get("report", report_data)) for a dict and
\* str(report_data) otherwise.
ExtractOutput(rd) ==
  IF rd.dict /\ rd.has_report THEN rd.report ELSE rd.repr

\* Mutant: a status of error does not end the run; the loop goes on.
PollGetErrorContinues ==
  /\ poll.pc = "get"
  /\ \E d \in Delays :
       /\ poll.now + d <= MaxClock
       /\ poll' = [poll EXCEPT !.pc = "test", !.now = poll.now + d,
                               !.last = "error", !.polls = poll.polls + 1]
  /\ UNCHANGED reports
  /\ PollFrame

\* Lines 192-218: status complete; the report file is written and the output returned.
PollGetComplete ==
  /\ poll.pc = "get"
  /\ \E d \in Delays, rd \in ReportData :
       /\ poll.now + d <= MaxClock
       /\ poll' = [poll EXCEPT !.pc = "returned", !.now = poll.now + d,
                               !.last = "complete", !.polls = poll.polls + 1, !.ended = TRUE,
                               !.body = rd,
                               !.result = << ExtractOutput(rd), "complete",
                                             poll.now + d - poll.start >>]
  /\ reports' = WriteReport(reports, << gen.problem_id, "sparlo" >>)
  /\ PollFrame

\* Lines 219-220: status error.
PollGetError ==
  /\ poll.pc = "get"
  /\ \E d \in Delays :
       /\ poll.now + d <= MaxClock
       /\ poll' = [poll EXCEPT !.pc = "returned", !.now = poll.now + d,
                               !.last = "error", !.polls = poll.polls + 1, !.ended = TRUE,
                               !.result = << "", "error", poll.now + d - poll.start >>]
  /\ UNCHANGED reports
  /\ PollFrame

\* Lines 175-185: requests.get raises, or the body is not JSON.
PollGetRaises ==
  /\ poll.pc = "get"
  /\ \E d \in Delays :
       /\ poll.now + d <= MaxClock
       /\ poll' = [poll EXCEPT !.pc = "raised", !.now = poll.now + d,
                               !.last = "raised", !.polls = poll.polls + 1, !.ended = TRUE]
  /\ UNCHANGED reports
  /\ PollFrame

NextPoll ==
  \/ PollNoCredential
  \/ PollSubmitRejected
  \/ PollSubmitRaises
  \/ PollSubmitAccepted
  \/ PollEnter
  \/ PollTimeout
  \/ PollSleep
  \/ PollGetNon200
  \/ PollGetInProgress
  \/ PollGetComplete
  \/ PollGetError
  \/ PollGetRaises

SpecPoll == InitPoll /\ [][NextPoll]_vars

\* One thread runs run_sparlo: a sleep returns and a request returns or raises
\* (both requests carry a timeout), so the next statement is always reached.
FairSpecPoll == SpecPoll /\ WF_vars(NextPoll)

\* --------------------------- one generate and one evaluate, started separately
\* Two processes run the CLI at the same time on one ledger: a generate invocation
\* and an evaluate invocation.  Here pc holds one position per process,
\*   pc.g   start | backends | append | done
\*   pc.e   start | loop | rewrite | write | done
\* gen and ev are the locals of the two processes.  Nothing in the program locks
\* the ledger.
\* The report files a finished generate invocation has left.
ReportsOf(g) ==
  LET afterSparlo == IF g.sparlo[2] = "complete"
                     THEN WriteReport(<< >>, << g.problem_id, "sparlo" >>)
                     ELSE << >>
  IN IF g.claude[2] = "complete"
     THEN WriteReport(afterSparlo, << g.problem_id, "claude" >>)
     ELSE afterSparlo

\* The ledger both processes start on: the header and the row of one earlier
\* generate invocation, with any outcome of its two backend calls.
InitConc ==
  /\ csv_exists = TRUE
  /\ \E inp \in GenerateInputs, s \in SparloReturns, resp \in ClaudeResponses :
       LET g == [NoGen EXCEPT !.problem_id = "id1", !.input = inp,
                              !.sparlo = s, !.claude = run_claude(resp)]
       IN /\ csv_lines = << CSV_COLUMNS, WriteRowLine(GenerateRow(g)) >>
          /\ reports = ReportsOf(g)
  /\ pc = [g |-> "start", e |-> "start"]
  /\ nextId = 1
  /\ gen = NoGen
  /\ ev = NoEv
  /\ hist = [NoHist EXCEPT !.kind = "generate", !.appended = << "id1" >>]
  /\ poll = NoPoll

\* generate, lines 326-358: the cli callback, the uuid4 and the metadata.
ConcGenerateStart ==
  /\ pc.g = "start"
  /\ \E inp \in GenerateInputs :
       gen' = [NoGen EXCEPT !.problem_id = "id" \o ToString(nextId + 1),
                            !.input = inp,
                            !.lines0 = InitCsvLines]
  /\ Cli
  /\ nextId' = nextId + 1
  /\ pc' = [pc EXCEPT !.g = "backends"]
  /\ UNCHANGED << reports, ev, hist, poll >>

\* generate, lines 361-383: run_sparlo and run_claude return and the report files
\* of the complete ones are written (neither call touches the ledger).
ConcGenerateBackends ==
  /\ pc.g = "backends"
  /\ \E s \in SparloReturns, resp \in ClaudeResponses :
       LET g == [gen EXCEPT !.sparlo = s, !.claude = run_claude(resp),
                            !.claude_calls = gen.claude_calls + 1,
                            !.claude_resp = resp]
           afterSparlo == IF s[2] = "complete"
                          THEN WriteReport(reports, << gen.problem_id, "sparlo" >>)
                          ELSE reports
       IN /\ gen' = g
          /\ reports' = IF g.claude[2] = "complete"
                        THEN WriteReport(afterSparlo, << gen.problem_id, "claude" >>)
                        ELSE afterSparlo
  /\ pc' = [pc EXCEPT !.g = "append"]
  /\ UNCHANGED << csv_exists, csv_lines, nextId, ev, hist, poll >>

\* generate, line 361: run_sparlo raises and generate ends.
ConcGenerateRaises ==
  /\ pc.g = "backends"
  /\ gen' = [gen EXCEPT !.raised = TRUE]
  /\ pc' = [pc EXCEPT !.g = "done"]
  /\ UNCHANGED << csv_exists, csv_lines, reports, nextId, ev, hist, poll >>

\* generate, lines 406-408: open(CSV_FILE, 'a') and writerow(row); the line goes
\* to the end of the file as it is at that moment.
ConcGenerateAppend ==
  /\ pc.g = "append"
  /\ csv_lines' = Append(csv_lines, WriteRowLine(GenerateRow(gen)))
  /\ hist' = [hist EXCEPT !.appended = Append(hist.appended, gen.problem_id)]
  /\ pc' = [pc EXCEPT !.g = "done"]
  /\ UNCHANGED << csv_exists, reports, nextId, gen, ev, poll >>

\* evaluate, lines 417-432: the cli callback, the read of every row, the selection.
ConcEvaluateLoad ==
  /\ pc.e = "start"
  /\ Cli
  /\ LET rows == DictRead(InitCsvLines) IN
       /\ ev' = [NoEv EXCEPT !.rows = rows,
                             !.to_evaluate = ToEvaluate(rows),
                             !.lines0 = InitCsvLines]
       /\ pc' = [pc EXCEPT !.e = IF ToEvaluate(rows) = << >> THEN "done" ELSE "loop"]
  /\ UNCHANGED << reports, nextId, gen, hist, poll >>

\* evaluate, lines 434-525: one iteration in which evaluate_outputs returns.
ConcEvaluateJudgeReturns ==
  /\ pc.e = "loop"
  /\ \E result \in JudgeResults :
       LET n == ev.to_evaluate[ev.i]
           m == MergeResult(ev.rows[n], result)
       IN ev' = [ev EXCEPT !.rows[n] = m.row,
                           !.i = ev.i + 1,
                           !.judged = Append(ev.judged, n),
                           !.failed = IF m.raised THEN ev.failed \cup {n} ELSE ev.failed]
  /\ pc' = [pc EXCEPT !.e = IF ev.i = Len(ev.to_evaluate) THEN "rewrite" ELSE "loop"]
  /\ UNCHANGED << csv_exists, csv_lines, reports, nextId, gen, hist, poll >>

\* evaluate, lines 447-529: one iteration in which evaluate_outputs raises.
ConcEvaluateJudgeRaises ==
  /\ pc.e = "loop"
  /\ LET n == ev.to_evaluate[ev.i] IN
       ev' = [ev EXCEPT !.i = ev.i + 1,
                        !.judged = Append(ev.judged, n),
                        !.failed = ev.failed \cup {n}]
  /\ pc' = [pc EXCEPT !.e = IF ev.i = Len(ev.to_evaluate) THEN "rewrite" ELSE "loop"]
  /\ UNCHANGED << csv_exists, csv_lines, reports, nextId, gen, hist, poll >>

\* evaluate, line 532: open(CSV_FILE, 'w') truncates the file.
ConcEvaluateOpen ==
  /\ pc.e = "rewrite"
  /\ csv_lines' = << >>
  /\ ev' = [ev EXCEPT !.writes = ev.writes + 1]
  /\ pc' = [pc EXCEPT !.e = "write"]
  /\ UNCHANGED << csv_exists, reports, nextId, gen, hist, poll >>

\* What is left of a line another process appended to the truncated file once the
\* rewrite, which starts at offset 0, has written over its beginning.
TornLine == << "torn" >>

\* evaluate, lines 533-535: the header and the rows loaded at the start are
\* written from offset 0 and the file is closed.  A line appended since the
\* truncation lies under that text: it is written over, wholly or, when it is the
\* longer, up to a tail that stays after the last row.
ConcEvaluateWrite ==
  /\ pc.e = "write"
  /\ \/ csv_lines' = FileOf(ev.rows)
     \/ /\ csv_lines # << >>
        /\ csv_lines' = Append(FileOf(ev.rows), TornLine)
  /\ pc' = [pc EXCEPT !.e = "done"]
  /\ UNCHANGED << csv_exists, reports, nextId, gen, ev, hist, poll >>

NextConc ==
  \/ ConcGenerateStart
  \/ ConcGenerateBackends
  \/ ConcGenerateRaises
  \/ ConcGenerateAppend
  \/ ConcEvaluateLoad
  \/ ConcEvaluateJudgeReturns
  \/ ConcEvaluateJudgeRaises
  \/ ConcEvaluateOpen
  \/ ConcEvaluateWrite

SpecConc == InitConc /\ [][NextConc]_vars


\* ================================================================= claims
\* The column of each field in a line written under the CSV_COLUMNS header.
ColumnOf == FieldColumn(CSV_COLUMNS)

Cell(line, name) == line[ColumnOf[name]]

\* The rows of a file: its lines after the header.
DataLines(lines) == IF lines = << >> THEN << >> ELSE Tail(lines)

\* The judging fields: the sub-scores, totals, winner, margin, texts, cross-domain
\* counts and lists, would-pay and its rationale, verdict and composed rationale.
JudgingFields == Range(SubSeq(CSV_COLUMNS, 17, 43))

\* The judging columns of every row of a file (with the optional notes).
JudgingColumns(lines) ==
  [ i \in 1..Len(DataLines(lines)) |->
      [ c \in JudgingFields \cup {"notes"} |-> Cell(DataLines(lines)[i], c) ] ]

\* The integer a cell holds.
StoredInt(s) == CHOOSE n \in -300..300 : ToString(n) = s

\* A row of a file that the selection of evaluate is to pick: evaluated is false
\* and both statuses are complete.
EligibleLine(line) ==
  /\ Cell(line, "evaluated") = "false"
  /\ Cell(line, "sparlo_status") = "complete"
  /\ Cell(line, "claude_status") = "complete"

\* The indices of the eligible rows of a file, ascending.
RECURSIVE EligibleFrom(_, _)
EligibleFrom(lines, n) ==
  IF n > Len(DataLines(lines)) THEN << >>
  ELSE (IF EligibleLine(DataLines(lines)[n]) THEN << n >> ELSE << >>)
         \o EligibleFrom(lines, n + 1)

IsPrefix(s, t) == Len(s) <= Len(t) /\ s = SubSeq(t, 1, Len(s))

EvaluateRunning == pc \in {"eval_loop", "eval_rewrite", "eval_write", "eval_exit"}

\* C1: in every persisted ledger, a row with evaluated=false has every judging
\* field blank (a failed judge merge leaves nothing written on the row).
C1_UnevaluatedRowsBlank ==
  \A i \in 1..Len(DataLines(csv_lines)) :
    Cell(DataLines(csv_lines)[i], "evaluated") = "false"
      => \A c \in JudgingFields \cup {"notes"} : Cell(DataLines(csv_lines)[i], c) = ""

\* C2: in every persisted ledger, a row with evaluated=true has every judging field
\* non-blank and both totals in 6..60.
C2_EvaluatedRowsComplete ==
  \A i \in 1..Len(DataLines(csv_lines)) :
    Cell(DataLines(csv_lines)[i], "evaluated") = "true"
      => /\ \A c \in JudgingFields : Cell(DataLines(csv_lines)[i], c) # ""
         /\ Cell(DataLines(csv_lines)[i], "sparlo_total") \in { ToString(n) : n \in 6..60 }
         /\ Cell(DataLines(csv_lines)[i], "claude_total") \in { ToString(n) : n \in 6..60 }

\* C3: when a generate invocation ends, it has appended exactly one row, with the
\* invocation's problem id, evaluated=false and blank judging fields.
C3_GenerateAppendsOneRow ==
  pc = "gen_exit"
    => /\ Len(csv_lines) = Len(gen.lines0) + 1
       /\ SubSeq(csv_lines, 1, Len(gen.lines0)) = gen.lines0
       /\ LET line == csv_lines[Len(csv_lines)] IN
            /\ Cell(line, "problem_id") = gen.problem_id
            /\ Cell(line, "evaluated") = "false"
            /\ \A c \in JudgingFields \cup {"notes"} : Cell(line, c) = ""

\* C4 (as claimed): an evaluate run that follows an evaluate run makes no judge
\* call and leaves the judging columns as they were, whatever happened in the first.
C4_SecondRunIdle ==
  (pc = "eval_exit" /\ hist.kind = "evaluate")
    => /\ ev.judged = << >>
       /\ JudgingColumns(csv_lines) = JudgingColumns(ev.lines0)

\* C4 (amended): an evaluate run that follows an evaluate run in which no judge
\* call failed makes no judge call and leaves the judging columns as they were.
C4_SecondRunIdleAfterCleanRun ==
  (pc = "eval_exit" /\ hist.kind = "evaluate" /\ ~hist.failed)
    => /\ ev.judged = << >>
       /\ JudgingColumns(csv_lines) = JudgingColumns(ev.lines0)

\* C4 witness: a second run ends after a first run that judged rows without failure.
C4_Witness ==
  /\ pc = "eval_exit"
  /\ hist.kind = "evaluate"
  /\ ~hist.failed
  /\ hist.calls > 0
  /\ ev.judged = << >>

\* The status run_sparlo returned ("" while it has not returned).
ReturnedStatus == IF poll.result = << >> THEN "" ELSE poll.result[2]

\* C5: once the submission is accepted the run ends, and it ends with status
\* timeout unless a status request came back complete or error (or raised).
C5_PollLoopTerminates ==
  (poll.pc = "test")
    ~> (/\ poll.pc \in {"returned", "raised"}
        /\ (poll.ended \/ ReturnedStatus = "timeout"))

\* C5 witness: the run returned timeout after polling with no terminal response.
C5_Witness ==
  /\ poll.pc = "returned"
  /\ ~poll.ended
  /\ poll.polls > 0
  /\ ReturnedStatus = "timeout"

\* C6: during and after an evaluate run, a row that was not eligible when the
\* ledger was loaded keeps the values it was loaded with, in memory and, when the
\* run ends, in the file.
C6_IneligibleRowsUnchanged ==
  EvaluateRunning
    => \A i \in 1..Len(DataLines(ev.lines0)) :
         ~EligibleLine(DataLines(ev.lines0)[i])
           => /\ WriteRowLine(ev.rows[i]) = DataLines(ev.lines0)[i]
              /\ pc = "eval_exit" => DataLines(csv_lines)[i] = DataLines(ev.lines0)[i]

\* C6 witness: a run that updated an eligible row ends with an already evaluated
\* row in the ledger.
C6_Witness ==
  /\ pc = "eval_exit"
  /\ csv_lines # ev.lines0
  /\ \E i \in 1..Len(DataLines(ev.lines0)) :
       Cell(DataLines(ev.lines0)[i], "evaluated") = "true"

\* The sum of the six stored sub-scores of a backend.
RECURSIVE StoredSubScores(_, _, _)
StoredSubScores(line, who, n) ==
  IF n > Len(Dimensions) THEN 0
  ELSE StoredInt(Cell(line, who \o "_" \o Dimensions[n])) + StoredSubScores(line, who, n + 1)

\* C7: on every judged row each stored total is the sum of the backend's six stored
\* sub-scores and the stored margin is the Sparlo total minus the Claude total.
C7_TotalsAndMargin ==
  \A i \in 1..Len(DataLines(csv_lines)) :
    LET line == DataLines(csv_lines)[i] IN
      Cell(line, "evaluated") = "true"
        => /\ StoredInt(Cell(line, "sparlo_total")) = StoredSubScores(line, "sparlo", 1)
           /\ StoredInt(Cell(line, "claude_total")) = StoredSubScores(line, "claude", 1)
           /\ StoredInt(Cell(line, "score_margin"))
                = StoredInt(Cell(line, "sparlo_total")) - StoredInt(Cell(line, "claude_total"))

\* C8: at every point of an evaluate run the file holds either its contents before
\* the run or the complete contents the run writes.
C8_RewriteAtomic ==
  EvaluateRunning => csv_lines \in { ev.lines0, FileOf(ev.rows) }

\* C9: the judge calls of a run are made on the rows eligible at load, once each,
\* in ledger order: always a prefix of them, and all of them once the loop is over.
C9_JudgedExactlyEligible ==
  EvaluateRunning
    => /\ IsPrefix(ev.judged, EligibleFrom(ev.lines0, 1))
       /\ pc # "eval_loop" => ev.judged = EligibleFrom(ev.lines0, 1)

\* C9 witness: a run ends that judged the second row and skipped the first.
C9_Witness ==
  /\ pc = "eval_exit"
  /\ Len(DataLines(ev.lines0)) = 2
  /\ ev.judged = << 2 >>

\* C10: a run in which a judge call failed still judged every eligible row, rewrote
\* the ledger, and left each failed row evaluated=false and eligible for the next run.
C10_FailureDoesNotAbort ==
  (pc = "eval_exit" /\ ev.failed # {})
    => /\ ev.judged = EligibleFrom(ev.lines0, 1)
       /\ csv_lines = FileOf(ev.rows)
       /\ \A n \in ev.failed :
            /\ Cell(DataLines(csv_lines)[n], "evaluated") = "false"
            /\ n \in Range(ToEvaluate(DictRead(csv_lines)))

\* C10 witness: the first of two judge calls failed and the second row was judged.
C10_Witness ==
  /\ pc = "eval_exit"
  /\ ev.failed = {1}
  /\ ev.judged = << 1, 2 >>
  /\ Cell(DataLines(csv_lines)[2], "evaluated") = "true"

\* C11: no status request is sent once the time elapsed since the start of the run
\* exceeds the budget (a request is sent at poll.pc = "get", after the sleep).
C11_NoPollAfterBudget ==
  poll.pc = "get" => Elapsed <= PollBudget

C13_InitCsvIdempotent ==
  [][ pc = "idle"
        => /\ csv_exists'
           /\ csv_lines' = IF csv_exists THEN csv_lines ELSE << CSV_COLUMNS >> ]_vars

\* C13 witness: a generate started on a ledger that held rows, and after init_csv
\* the ledger still holds them.
C13_Witness ==
  /\ pc = "gen_sparlo"
  /\ Len(gen.lines0) > 1
  /\ csv_lines = gen.lines0

\* The problem ids of the rows of a file, in file order.
ProblemIds(lines) ==
  [ i \in 1..Len(DataLines(lines)) |-> Cell(DataLines(lines)[i], "problem_id") ]

\* C14: between invocations the ledger holds exactly the rows appended so far, in
\* the order of their insertion, and no problem id twice.
C14_RowsKeptInOrder ==
  pc = "idle"
    => /\ ProblemIds(csv_lines) = hist.appended
       /\ \A i, j \in 1..Len(hist.appended) :
            hist.appended[i] = hist.appended[j] => i = j

\* C14 witness: two rows were appended and an evaluate run that judged rows has
\* rewritten the ledger.
C14_Witness ==
  /\ pc = "idle"
  /\ hist.kind = "evaluate"
  /\ hist.calls > 0
  /\ Len(hist.appended) = 2
  /\ Len(csv_lines) = 3

\* The step in which a status request comes back with a non-success response.
Non200Step ==
  /\ poll.pc = "get"
  /\ poll'.polls = poll.polls + 1
  /\ poll'.last = "non200"

\* C15: a status request that comes back with a non-success response leaves the run
\* polling (back at the loop test, nothing returned, no report written); from the
\* loop test with budget left the only step is into the wait, the only step out of
\* the wait comes at least 30 units later and sends the next status request, and
\* that request is eventually sent.
C15_Non200KeepsPolling ==
  /\ [][ /\ Non200Step
            => /\ poll'.pc = "test"
               /\ poll'.result = << >>
               /\ poll'.ended = poll.ended
               /\ reports' = reports
         /\ (poll.pc = "test" /\ Elapsed < PollBudget) => poll'.pc = "sleep"
         /\ poll.pc = "sleep"
              => poll'.pc = "get" /\ poll'.now >= poll.now + PollInterval ]_vars
  /\ (poll.pc = "test" /\ poll.last = "non200" /\ Elapsed < PollBudget) ~> (poll.pc = "get")

\* C15 witness: after a non-success response the next status request is about to be
\* sent, the run still without a result.
C15_Witness ==
  /\ poll.pc = "get"
  /\ poll.last = "non200"
  /\ poll.result = << >>

\* C16: the sync backend is called only after run_sparlo has handed back a terminal
\* status, and every generate invocation has called it exactly once when it ends.
C16_SyncCalledOnceAfterAsync ==
  /\ gen.claude_calls > 0
       => /\ gen.sparlo # << >>
          /\ gen.sparlo[2] \in {"complete", "error", "timeout"}
  /\ pc = "gen_claude" => gen.claude_calls = 0
  /\ pc = "gen_exit" => gen.claude_calls = 1

\* C17: status requests are sent only once the submission was accepted (none when
\* the credential is missing or the submission is rejected); a request is sent only
\* out of the wait, at least 30 units after the wait began, and the wait is entered
\* only from the loop test; a response of error ends the run with status error, a
\* response of complete ends it with status complete and the extracted payload; once
\* the run has ended no request is sent.
C17_PollStateMachine ==
  /\ [](/\ poll.submit # "accepted"
            => poll.polls = 0 /\ poll.pc \in {"entry", "returned", "raised"}
        /\ poll.pc = "get" => Elapsed >= (poll.polls + 1) * PollInterval)
  /\ [][ /\ poll'.polls # poll.polls
              => poll.pc = "get" /\ poll'.polls = poll.polls + 1
         /\ (poll'.pc = "get" /\ poll.pc # "get")
              => poll.pc = "sleep" /\ poll'.now >= poll.now + PollInterval
         /\ (poll'.pc = "sleep" /\ poll.pc # "sleep") => poll.pc = "test"
         /\ (poll'.pc = "test" /\ poll.pc # "test") => poll.pc \in {"entry", "get"}
         /\ (poll'.polls # poll.polls /\ poll'.last = "error")
              => poll'.pc = "returned" /\ poll'.result[2] = "error"
         /\ (poll'.polls # poll.polls /\ poll'.last = "complete")
              => /\ poll'.pc = "returned"
                 /\ poll'.result[2] = "complete"
                 /\ poll'.result[1] = ExtractOutput(poll'.body)
         /\ poll.pc \in {"returned", "raised"} => poll'.polls = poll.polls ]_vars

\* C17 witness: the run ended complete on its second status request, with the
\* report text taken out of the payload.
C17_Witness ==
  /\ poll.pc = "returned"
  /\ poll.polls = 2
  /\ ReturnedStatus = "complete"
  /\ poll.body # << >>
  /\ poll.body.has_report
  /\ poll.result[1] = "sparlo report"

\* C18: an evaluate run opens the ledger for writing at most once, and only when
\* every selected row has been through the judge; while the loop runs the file is
\* as it was loaded; a run with nothing selected writes nothing.
C18_OneWriteAfterLoop ==
  EvaluateRunning
    => /\ ev.writes <= 1
       /\ ev.writes = 1 => ev.judged = ev.to_evaluate /\ ev.to_evaluate # << >>
       /\ pc \in {"eval_loop", "eval_rewrite"} => ev.writes = 0 /\ csv_lines = ev.lines0
       /\ ev.to_evaluate = << >> => ev.writes = 0 /\ csv_lines = ev.lines0

\* C18 witness: the judge has answered for the first of two selected rows, the
\* merged row differs from the stored one, and the file is still as loaded.
C18_Witness ==
  /\ pc = "eval_loop"
  /\ Len(ev.to_evaluate) = 2
  /\ Len(ev.judged) = 1
  /\ FileOf(ev.rows) # ev.lines0
  /\ csv_lines = ev.lines0
  /\ ev.writes = 0

\* The fields generate writes and evaluate is to keep: problem id, creation time,
\* the input fields and the execution fields.
KeptFields == Range(SubSeq(CSV_COLUMNS, 1, 16))

\* C19: every row the judge was called for, whether the call succeeded or failed,
\* keeps the problem id, creation time, input fields and execution fields it was
\* loaded with, in memory and, when the run ends, in the file.
C19_JudgedRowsKeepInputs ==
  EvaluateRunning
    => \A k \in 1..Len(ev.judged) : \A c \in KeptFields :
         LET n == ev.judged[k] IN
           /\ Cell(WriteRowLine(ev.rows[n]), c) = Cell(DataLines(ev.lines0)[n], c)
           /\ pc = "eval_exit"
                => Cell(DataLines(csv_lines)[n], c) = Cell(DataLines(ev.lines0)[n], c)

\* C19 witness: a run ends that judged two rows, the second call failing, and
\* changed the file.
C19_Witness ==
  /\ pc = "eval_exit"
  /\ ev.judged = << 1, 2 >>
  /\ ev.failed = {2}
  /\ csv_lines # ev.lines0
  /\ Cell(DataLines(csv_lines)[1], "evaluated") = "true"

\* There is a report file of this backend for this problem id.
HasReport(id, backend) == << id, backend >> \in DOMAIN reports

\* C20: every report file was written once; a row of the ledger has the Claude file
\* exactly when its Claude status is complete and a Sparlo file only when its Sparlo
\* status is complete, and so has the generate invocation past the save; a step
\* that writes a report file writes one of the running generate, whose row is not
\* yet in the ledger, and leaves every other file as it was.
C20_ReportsWrittenOnce ==
  /\ [](/\ \A name \in DOMAIN reports : reports[name] = 1
        /\ \A i \in 1..Len(DataLines(csv_lines)) :
             LET line == DataLines(csv_lines)[i] IN
               /\ HasReport(Cell(line, "problem_id"), "claude")
                    <=> Cell(line, "claude_status") = "complete"
               /\ HasReport(Cell(line, "problem_id"), "sparlo")
                    => Cell(line, "sparlo_status") = "complete"
        /\ pc = "gen_append"
             => /\ HasReport(gen.problem_id, "claude") <=> gen.claude[2] = "complete"
                /\ HasReport(gen.problem_id, "sparlo") => gen.sparlo[2] = "complete")
  /\ [][ reports' # reports
           => /\ pc \in {"gen_sparlo", "gen_save"}
              /\ \A i \in 1..Len(DataLines(csv_lines)) :
                   Cell(DataLines(csv_lines)[i], "problem_id") # gen.problem_id
              /\ \A name \in DOMAIN reports' :
                   name[1] # gen.problem_id
                     => name \in DOMAIN reports /\ reports'[name] = reports[name] ]_vars

\* C20 witness: the ledger holds a row with both report files and a row whose
\* Claude call failed, without a Claude file.
C20_Witness ==
  /\ pc = "idle"
  /\ Len(csv_lines) = 3
  /\ HasReport("id1", "sparlo") /\ HasReport("id1", "claude")
  /\ Cell(csv_lines[3], "claude_status") = "error"
  /\ ~HasReport(Cell(csv_lines[3], "problem_id"), "claude")

\* The number of whole waits that fit in the budget (2100 / 30 = 70).
MaxPolls == PollBudget \div PollInterval

\* C21: one run of run_sparlo sends at most 70 status requests, and when a request
\* is about to be sent fewer than 70 were sent before it.
C21_AtMostSeventyPolls ==
  /\ poll.pc # "off" => poll.polls <= MaxPolls
  /\ poll.pc \in {"sleep", "get"} => poll.polls < MaxPolls

\* C21 witness: the run returned timeout after exactly 70 status requests.
C21_Witness ==
  /\ poll.pc = "returned"
  /\ ReturnedStatus = "timeout"
  /\ poll.polls = MaxPolls

\* The number of rows of a file marked evaluated that carry this winner tag.
EvaluatedWithWinner(lines, tag) ==
  Cardinality({ i \in 1..Len(DataLines(lines)) :
                  /\ Cell(DataLines(lines)[i], "evaluated") = "true"
                  /\ Cell(DataLines(lines)[i], "winner") = tag })

\* C22: on every ledger left by generate and evaluate invocations for which status
\* prints a tally (some row is evaluated), the tally of status and the summary
\* tally of evaluate agree: each of Sparlo wins, Claude wins and ties is the number
\* of evaluated rows with that tag, none is negative, and the three add up to the
\* number of evaluated rows.
C22_StatusTallyAgrees ==
  (pc = "idle" /\ csv_exists)
    => LET rows == DictRead(csv_lines)
           st == StatusCounts(rows)
           su == SummaryCounts(rows)
       IN st.evaluated > 0 =>
          /\ st.sparlo_wins = su.sparlo_wins
          /\ st.claude_wins = su.claude_wins
          /\ st.ties = su.ties
          /\ st.sparlo_wins = EvaluatedWithWinner(csv_lines, "Sparlo")
          /\ st.claude_wins = EvaluatedWithWinner(csv_lines, "Claude")
          /\ st.ties = EvaluatedWithWinner(csv_lines, "Tie")
          /\ st.sparlo_wins >= 0 /\ st.claude_wins >= 0 /\ st.ties >= 0
          /\ st.sparlo_wins + st.claude_wins + st.ties = st.evaluated

\* C23: in every ledger left by generate and evaluate invocations, a row marked
\* evaluated has both statuses complete, and the pending count of status (rows
\* complete on both backends minus rows evaluated) is not negative and is the
\* number of rows the next evaluate run selects.
C23_PendingIsEligible ==
  (pc = "idle" /\ csv_exists)
    => LET rows == DictRead(csv_lines) IN
         /\ \A i \in 1..Len(DataLines(csv_lines)) :
              Cell(DataLines(csv_lines)[i], "evaluated") = "true"
                => /\ Cell(DataLines(csv_lines)[i], "sparlo_status") = "complete"
                   /\ Cell(DataLines(csv_lines)[i], "claude_status") = "complete"
         /\ StatusCounts(rows).pending >= 0
         /\ StatusCounts(rows).pending = Len(ToEvaluate(rows))
         /\ StatusCounts(rows).pending = Len(EligibleFrom(csv_lines, 1))

\* C23 witness: a ledger with an evaluated row, a row whose judge call failed (still
\* pending) and so one row for the next evaluate run.
C23_Witness ==
  /\ pc = "idle"
  /\ hist.kind = "evaluate"
  /\ hist.failed
  /\ Len(csv_lines) = 3
  /\ StatusCounts(DictRead(csv_lines)).evaluated = 1
  /\ StatusCounts(DictRead(csv_lines)).pending = 1

\* C24: when a generate invocation and a separately started evaluate invocation
\* have both finished, the row the generate invocation appended is in the ledger.
C24_ConcurrentAppendKept ==
  (pc.g = "done" /\ pc.e = "done" /\ ~gen.raised)
    => \E i \in 1..Len(csv_lines) :
         /\ Len(csv_lines[i]) = Len(CSV_COLUMNS)
         /\ Cell(csv_lines[i], "problem_id") = gen.problem_id

=============================================================================
